---- MODULE Spec2Model ----
(***************************************************************************)
(* CloudTrailDetectionEngine: the Lambda handlers that fetch a gzipped      *)
(* CloudTrail log from S3, filter its records by eventName and publish the  *)
(* matching records to an SNS topic.                                        *)
(*                                                                          *)
(*   variant "main" : src/LambdaCloudTrailProcess.py                        *)
(*   variant "copy" : src/lambda/LambdaCloudTrailProcess copy.py            *)
(***************************************************************************)
EXTENDS Integers, Sequences, FiniteSets, TLC

(***************************************************************************)
(* Bounds of the model.                                                     *)
(***************************************************************************)
\* longest Records sequence of a CloudTrail log batch
MaxRecords == 3
\* most records that follow the first record of an S3 notification
MaxTail == 1

(***************************************************************************)
(* Python / JSON values.  Every value is a record of one shape:             *)
(*   t = "null" | "str" | "num" | "arr" | "obj"                             *)
(*   s = the text of a string or of a number                                *)
(*   items = the elements of an array, or the <<key, value>> members of an  *)
(*           object as records [k, v] in insertion order                    *)
(* Python's None is the JSON null.                                          *)
(***************************************************************************)
JNull == [t |-> "null", s |-> "", items |-> <<>>]
JStr(x) == [t |-> "str", s |-> x, items |-> <<>>]
JNum(x) == [t |-> "num", s |-> x, items |-> <<>>]
JArr(xs) == [t |-> "arr", s |-> "", items |-> xs]
JObj(ms) == [t |-> "obj", s |-> "", items |-> ms]
Member(key, val) == [k |-> key, v |-> val]

\* Python truthiness: None, "", 0, [] and {} are falsy
truthy(v) ==
    CASE v.t = "null" -> FALSE
      [] v.t = "str" -> v.s # ""
      [] v.t = "num" -> v.s # "0"
      [] OTHER -> Len(v.items) > 0

\* only a dict has .get: on anything else the call raises AttributeError
has_get(v) == v.t = "obj"

\* dict.get(key, default) of a dict d
dict_get(d, key, default) ==
    IF \E i \in 1..Len(d.items) : d.items[i].k = key
    THEN d.items[CHOOSE i \in 1..Len(d.items) : d.items[i].k = key].v
    ELSE default

\* d[key] = val of a dict: replaces the value of a key it has, else appends
dict_set(ms, key, val) ==
    IF \E i \in 1..Len(ms) : ms[i].k = key
    THEN [i \in 1..Len(ms) |-> IF ms[i].k = key THEN Member(key, val) ELSE ms[i]]
    ELSE Append(ms, Member(key, val))

\* len(v) is defined for str, list and dict; TypeError on None and numbers
has_len(v) == v.t \in {"str", "arr", "obj"}

\* the elements `for x in v` yields: the items of a list, the keys of a dict,
\* the characters of a str (the model's strings have at most one character)
iter_items(v) ==
    CASE v.t = "arr" -> v.items
      [] v.t = "obj" -> [i \in 1..Len(v.items) |-> JStr(v.items[i].k)]
      [] v.t = "str" -> IF v.s = "" THEN <<>> ELSE <<JStr(v.s)>>
      [] OTHER -> <<>>

(***************************************************************************)
(* Text and bytes: a sequence of tokens [k, s].                             *)
(*   k = "p" punctuation, "s" string literal, "n" number literal,           *)
(*       "l" the literal null, "w" a bare word (no JSON),                   *)
(*       "x" a byte that is no UTF-8, "gz" gzip framing                     *)
(***************************************************************************)
Tok(kind, text) == [k |-> kind, s |-> text]
P(text) == Tok("p", text)

\* bytes.decode('utf-8') raises UnicodeDecodeError on an invalid byte
utf8_ok(bytes) == \A i \in 1..Len(bytes) : bytes[i].k \notin {"x", "gz"}

(***************************************************************************)
(* json.dumps                                                               *)
(***************************************************************************)
RECURSIVE json_dumps(_)
RECURSIVE dumps_items(_, _)
RECURSIVE dumps_members(_, _)
json_dumps(v) ==
    CASE v.t = "null" -> <<Tok("l", "null")>>
      [] v.t = "str" -> <<Tok("s", v.s)>>
      [] v.t = "num" -> <<Tok("n", v.s)>>
      [] v.t = "arr" -> <<P("[")>> \o dumps_items(v.items, 1) \o <<P("]")>>
      [] v.t = "obj" -> <<P("{")>> \o dumps_members(v.items, 1) \o <<P("}")>>
dumps_items(xs, i) ==
    IF i > Len(xs) THEN <<>>
    ELSE (IF i > 1 THEN <<P(",")>> ELSE <<>>) \o json_dumps(xs[i]) \o dumps_items(xs, i + 1)
dumps_members(ms, i) ==
    IF i > Len(ms) THEN <<>>
    ELSE (IF i > 1 THEN <<P(",")>> ELSE <<>>)
         \o <<Tok("s", ms[i].k), P(":")>> \o json_dumps(ms[i].v)
         \o dumps_members(ms, i + 1)

(***************************************************************************)
(* json.loads: a recursive-descent parser.  A parse is [ok, val, next]:     *)
(* next is the position after the value.  JSONDecodeError is ok = FALSE.    *)
(***************************************************************************)
ParseFail == [ok |-> FALSE, val |-> JNull, next |-> 0]
ParseOk(v, n) == [ok |-> TRUE, val |-> v, next |-> n]
IsP(text, i, p) == i <= Len(text) /\ text[i] = P(p)

RECURSIVE parse_value(_, _)
RECURSIVE parse_items(_, _, _)
RECURSIVE parse_members(_, _, _)
parse_value(text, i) ==
    IF i > Len(text) THEN ParseFail
    ELSE CASE text[i].k = "l" -> ParseOk(JNull, i + 1)
           [] text[i].k = "s" -> ParseOk(JStr(text[i].s), i + 1)
           [] text[i].k = "n" -> ParseOk(JNum(text[i].s), i + 1)
           [] text[i] = P("[") ->
                IF IsP(text, i + 1, "]") THEN ParseOk(JArr(<<>>), i + 2)
                ELSE parse_items(text, i + 1, <<>>)
           [] text[i] = P("{") ->
                IF IsP(text, i + 1, "}") THEN ParseOk(JObj(<<>>), i + 2)
                ELSE parse_members(text, i + 1, <<>>)
           [] OTHER -> ParseFail
\* the elements of an array from position i on, acc the elements read so far
parse_items(text, i, acc) ==
    LET e == parse_value(text, i) IN
    IF ~e.ok THEN ParseFail
    ELSE IF IsP(text, e.next, "]") THEN ParseOk(JArr(Append(acc, e.val)), e.next + 1)
    ELSE IF IsP(text, e.next, ",") THEN parse_items(text, e.next + 1, Append(acc, e.val))
    ELSE ParseFail
\* the members of an object from position i on; a repeated key keeps its
\* last value, as a Python dict does
parse_members(text, i, acc) ==
    IF ~(i + 1 <= Len(text) /\ text[i].k = "s" /\ text[i + 1] = P(":")) THEN ParseFail
    ELSE LET e == parse_value(text, i + 2) IN
         IF ~e.ok THEN ParseFail
         ELSE LET ms == dict_set(acc, text[i].s, e.val) IN
              IF IsP(text, e.next, "}") THEN ParseOk(JObj(ms), e.next + 1)
              ELSE IF IsP(text, e.next, ",") THEN parse_members(text, e.next + 1, ms)
              ELSE ParseFail

\* json.loads(text): the whole text must be one value
json_loads(text) ==
    LET r == parse_value(text, 1) IN
    IF r.ok /\ r.next = Len(text) + 1 THEN r ELSE ParseFail

(***************************************************************************)
(* gzip: a header, the data, and a trailer that carries the data's length   *)
(* (ISIZE).  gzip.decompress raises on a wrong header (BadGzipFile), on a   *)
(* missing trailer (EOFError) and on a length that does not match.          *)
(***************************************************************************)
GzMagic == Tok("gz", "1f8b")
GzSize(n) == [k |-> "gz", s |-> "isize", n |-> n]
gzip_compress(bytes) == <<GzMagic>> \o bytes \o <<GzSize(Len(bytes))>>
\* no bytes at all are no member at all: gzip.decompress(b'') is b''
gzip_ok(bytes) ==
    \/ Len(bytes) = 0
    \/ /\ Len(bytes) >= 2
       /\ bytes[1] = GzMagic
       /\ bytes[Len(bytes)] = GzSize(Len(bytes) - 2)
gzip_decompress(bytes) == SubSeq(bytes, 2, Len(bytes) - 1)


(***************************************************************************)
(* Results and log entries.                                                 *)
(***************************************************************************)
StatusOK == 200
StatusInvalid == 400
StatusError == 500

\* a log entry of the root logger (level INFO: debug entries are dropped)
\* args: the counts the entry's f-string interpolates
LogEntryN(level, msg, args) == [level |-> level, msg |-> msg, args |-> args]
LogEntry(level, msg) == LogEntryN(level, msg, <<>>)

\* the body of a result: the dict that is passed to json.dumps, with the
\* values its f-string interpolates (the object key, the counts)
Body(kind, text, k, counts) == [kind |-> kind, text |-> text, key |-> k, counts |-> counts]
Result(status, body) == [statusCode |-> status, body |-> body]
\* no result returned yet
NoResult == Result(0, Body("", "", "", <<>>))

\* the value of os.environ.get('SnsArn') when the variable is not set
NoTopic == "<None>"
\* `not sns_topic_arn`
topic_unset(topic) == topic \in {NoTopic, ""}

(***************************************************************************)
(* lambda_handler, lines 126-147: the bucket and key of the FIRST record    *)
(* of the notification.  outcome:                                           *)
(*   "no_records"  not records                        -> 200                *)
(*   "invalid"     not bucket or not key              -> 400                *)
(*   "raise"       a .get on something that is no dict, or records[0] on    *)
(*                 something that is no list         -> except Exception    *)
(*   "ok"          bucket and key extracted                                 *)
(***************************************************************************)
Decoded(outcome, b, k) == [outcome |-> outcome, bucket |-> b, key |-> k]

\* mutant: reads the last record of the notification instead of the first
decode_last_record(ev) ==
    IF ~has_get(ev) THEN Decoded("raise", "", "")
    ELSE LET records == dict_get(ev, "Records", JArr(<<>>)) IN
         IF ~truthy(records) THEN Decoded("no_records", "", "")
         ELSE IF records.t # "arr" THEN Decoded("raise", "", "")
         ELSE LET first_record == records.items[Len(records.items)] IN
              IF ~has_get(first_record) THEN Decoded("raise", "", "")
              ELSE LET s3_info == dict_get(first_record, "s3", JObj(<<>>)) IN
                   IF ~has_get(s3_info) THEN Decoded("raise", "", "")
                   ELSE LET bucket_info == dict_get(s3_info, "bucket", JObj(<<>>))
                            object_info == dict_get(s3_info, "object", JObj(<<>>))
                        IN IF ~has_get(bucket_info) \/ ~has_get(object_info)
                           THEN Decoded("raise", "", "")
                           ELSE LET b == dict_get(bucket_info, "name", JNull)
                                    k == dict_get(object_info, "key", JNull)
                                IN IF ~truthy(b) \/ ~truthy(k)
                                   THEN Decoded("invalid", "", "")
                                   ELSE Decoded("ok", b.s, k.s)

\* mutant: checks the bucket only (`if not bucket:`)
decode_unchecked_key(ev) ==
    IF ~has_get(ev) THEN Decoded("raise", "", "")
    ELSE LET records == dict_get(ev, "Records", JArr(<<>>)) IN
         IF ~truthy(records) THEN Decoded("no_records", "", "")
         ELSE IF records.t # "arr" THEN Decoded("raise", "", "")
         ELSE LET first_record == records.items[1] IN
              IF ~has_get(first_record) THEN Decoded("raise", "", "")
              ELSE LET s3_info == dict_get(first_record, "s3", JObj(<<>>)) IN
                   IF ~has_get(s3_info) THEN Decoded("raise", "", "")
                   ELSE LET bucket_info == dict_get(s3_info, "bucket", JObj(<<>>))
                            object_info == dict_get(s3_info, "object", JObj(<<>>))
                        IN IF ~has_get(bucket_info) \/ ~has_get(object_info)
                           THEN Decoded("raise", "", "")
                           ELSE LET b == dict_get(bucket_info, "name", JNull)
                                    k == dict_get(object_info, "key", JNull)
                                IN IF ~truthy(b)
                                   THEN Decoded("invalid", "", "")
                                   ELSE Decoded("ok", b.s, k.s)

\* mutant: no `if not records` test; records[0] of an empty list raises
\* IndexError, event['Records'] of a notification without it KeyError
decode_no_empty_check(ev) ==
    IF ~has_get(ev) THEN Decoded("raise", "", "")
    ELSE LET records == dict_get(ev, "Records", JArr(<<>>)) IN
         IF records.t # "arr" \/ Len(records.items) = 0 THEN Decoded("raise", "", "")
         ELSE LET first_record == records.items[1] IN
              IF ~has_get(first_record) THEN Decoded("raise", "", "")
              ELSE LET s3_info == dict_get(first_record, "s3", JObj(<<>>)) IN
                   IF ~has_get(s3_info) THEN Decoded("raise", "", "")
                   ELSE LET bucket_info == dict_get(s3_info, "bucket", JObj(<<>>))
                            object_info == dict_get(s3_info, "object", JObj(<<>>))
                        IN IF ~has_get(bucket_info) \/ ~has_get(object_info)
                           THEN Decoded("raise", "", "")
                           ELSE LET b == dict_get(bucket_info, "name", JNull)
                                    k == dict_get(object_info, "key", JNull)
                                IN IF ~truthy(b) \/ ~truthy(k)
                                   THEN Decoded("invalid", "", "")
                                   ELSE Decoded("ok", b.s, k.s)

decode_notification(ev) ==
    \* records = event.get('Records', [])
    IF ~has_get(ev) THEN Decoded("raise", "", "")
    ELSE LET records == dict_get(ev, "Records", JArr(<<>>)) IN
         \* if not records: return 200
         IF ~truthy(records) THEN Decoded("no_records", "", "")
         \* first_record = records[0]
         ELSE IF records.t # "arr" THEN Decoded("raise", "", "")
         ELSE LET first_record == records.items[1] IN
              \* s3_info = first_record.get('s3', {})
              IF ~has_get(first_record) THEN Decoded("raise", "", "")
              ELSE LET s3_info == dict_get(first_record, "s3", JObj(<<>>)) IN
                   \* bucket_info = s3_info.get('bucket', {}); object_info = ...
                   IF ~has_get(s3_info) THEN Decoded("raise", "", "")
                   ELSE LET bucket_info == dict_get(s3_info, "bucket", JObj(<<>>))
                            object_info == dict_get(s3_info, "object", JObj(<<>>))
                        IN \* bucket = bucket_info.get('name'); key = object_info.get('key')
                           IF ~has_get(bucket_info) \/ ~has_get(object_info)
                           THEN Decoded("raise", "", "")
                           ELSE LET b == dict_get(bucket_info, "name", JNull)
                                    k == dict_get(object_info, "key", JNull)
                                IN \* if not bucket or not key: return 400
                                   IF ~truthy(b) \/ ~truthy(k)
                                   THEN Decoded("invalid", "", "")
                                   ELSE Decoded("ok", b.s, k.s)

(***************************************************************************)
(* fetch_cloudtrail_log, lines 29-53, on the response of s3.get_object.     *)
(* A response is [status, body]: status "error" is an exception raised by   *)
(* get_object or by Body.read().  Returns [ok, data, logs]: ok = FALSE is   *)
(* the return of None.                                                      *)
(***************************************************************************)
S3Error == [status |-> "error", body |-> <<>>]
S3Body(bytes) == [status |-> "ok", body |-> bytes]
Fetched(data) == [ok |-> TRUE, data |-> data, logs |-> <<>>]
FetchFailed(level, msg) == [ok |-> FALSE, data |-> JNull, logs |-> <<LogEntry(level, msg)>>]

\* mutant: a failed decompression yields an empty batch instead of None
fetch_decompress_error_ignored(response) ==
    IF response.status = "error"
    THEN FetchFailed("error", "Error fetching CloudTrail log from S3")
    ELSE IF ~gzip_ok(response.body) \/ ~utf8_ok(gzip_decompress(response.body))
    THEN [ok |-> TRUE, data |-> JObj(<<>>),
          logs |-> <<LogEntry("warning", "Error decompressing log file")>>]
    ELSE LET parsed == json_loads(gzip_decompress(response.body)) IN
         IF ~parsed.ok THEN FetchFailed("error", "Error decoding JSON for file")
         ELSE IF ~has_get(parsed.val)
                 \/ ~has_len(dict_get(parsed.val, "Records", JArr(<<>>)))
         THEN FetchFailed("error", "Error fetching CloudTrail log from S3")
         ELSE Fetched(parsed.val)

\* mutant: returns the Records of the batch instead of the batch
fetch_returns_records(response) ==
    IF response.status = "error"
    THEN FetchFailed("error", "Error fetching CloudTrail log from S3")
    ELSE IF ~gzip_ok(response.body) \/ ~utf8_ok(gzip_decompress(response.body))
    THEN FetchFailed("warning", "Error decompressing log file")
    ELSE LET parsed == json_loads(gzip_decompress(response.body)) IN
         IF ~parsed.ok THEN FetchFailed("error", "Error decoding JSON for file")
         ELSE IF ~has_get(parsed.val)
                 \/ ~has_len(dict_get(parsed.val, "Records", JArr(<<>>)))
         THEN FetchFailed("error", "Error fetching CloudTrail log from S3")
         ELSE Fetched(dict_get(parsed.val, "Records", JArr(<<>>)))

\* mutant: the decompression failure is not caught where it happens, so
\* line 51 logs it with logger.error
fetch_decompress_logged_as_error(response) ==
    IF response.status = "error"
    THEN FetchFailed("error", "Error fetching CloudTrail log from S3")
    ELSE IF ~gzip_ok(response.body) \/ ~utf8_ok(gzip_decompress(response.body))
    THEN FetchFailed("error", "Error fetching CloudTrail log from S3")
    ELSE LET parsed == json_loads(gzip_decompress(response.body)) IN
         IF ~parsed.ok THEN FetchFailed("error", "Error decoding JSON for file")
         ELSE IF ~has_get(parsed.val)
                 \/ ~has_len(dict_get(parsed.val, "Records", JArr(<<>>)))
         THEN FetchFailed("error", "Error fetching CloudTrail log from S3")
         ELSE Fetched(parsed.val)

fetch_cloudtrail_log(response) ==
    \* response = s3.get_object(...); response['Body'].read()   -> line 51
    IF response.status = "error"
    THEN FetchFailed("error", "Error fetching CloudTrail log from S3")
    \* gzip.decompress(compressed_content).decode('utf-8')       -> line 39
    ELSE IF ~gzip_ok(response.body) \/ ~utf8_ok(gzip_decompress(response.body))
    THEN FetchFailed("warning", "Error decompressing log file")
    ELSE LET parsed == json_loads(gzip_decompress(response.body)) IN
         \* json.loads(content): JSONDecodeError                  -> line 48
         IF ~parsed.ok THEN FetchFailed("error", "Error decoding JSON for file")
         \* the f-string of line 46 evaluates len(log_data.get('Records', [])):
         \* AttributeError or TypeError, which only line 51 catches
         ELSE IF ~has_get(parsed.val)
                 \/ ~has_len(dict_get(parsed.val, "Records", JArr(<<>>)))
         THEN FetchFailed("error", "Error fetching CloudTrail log from S3")
         ELSE Fetched(parsed.val)

(***************************************************************************)
(* process_cloudtrail_event, lines 65-71 (the record is a dict)             *)
(***************************************************************************)
\* mutant: the list of src/LambdCloudTrailProcess.py, without ConsoleLogin
matched_without_console_login(record) ==
    LET event_name == dict_get(record, "eventName", JNull) IN
    event_name.t = "str" /\ event_name.s \in {"StopLogging", "UpdateTrail", "DeleteTrail"}

process_cloudtrail_event(record) ==
    LET event_name == dict_get(record, "eventName", JNull) IN
    /\ event_name.t = "str"
    /\ event_name.s \in {"StopLogging", "UpdateTrail", "ConsoleLogin", "DeleteTrail"}

(***************************************************************************)
(* for record in log_data.get('Records', []), line 163                      *)
(***************************************************************************)
BatchRecords(ok, recs) == [ok |-> ok, recs |-> recs]

\* mutant: log_data['Records'] as in src/LambdCloudTrailProcess.py line 68:
\* KeyError when the field is missing
batch_records_subscript(data) ==
    IF \E i \in 1..Len(data.items) : data.items[i].k = "Records"
    THEN BatchRecords(TRUE, iter_items(dict_get(data, "Records", JArr(<<>>))))
    ELSE BatchRecords(FALSE, <<>>)

batch_records(data) ==
    BatchRecords(TRUE, iter_items(dict_get(data, "Records", JArr(<<>>))))

(***************************************************************************)
(* send_to_sns, lines 80-96.  outcome is what sns.publish does when it is   *)
(* called: "ok" (a response with a MessageId) or "error" (it raises).       *)
(* Returns the publish calls made (none or one), the log entries and        *)
(* whether an exception leaves the function.                                *)
(***************************************************************************)
PublishCall(topic, record) ==
    [TopicArn |-> topic,
     Message |-> json_dumps(record),
     Subject |-> <<"CloudTrail Event: ", dict_get(record, "eventName", JStr("Unknown")).s>>]
Sent(calls, logs, raised) == [calls |-> calls, logs |-> logs, raised |-> raised]

\* mutant: no try/except around sns.publish
send_to_sns_uncaught(record, topic, outcome) ==
    IF topic_unset(topic)
    THEN Sent(<<>>, <<LogEntry("critical", "SNS_TOPIC_ARN is not set")>>, FALSE)
    ELSE IF outcome = "ok"
    THEN Sent(<<PublishCall(topic, record)>>, <<LogEntry("info", "Event sent to SNS")>>, FALSE)
    ELSE Sent(<<PublishCall(topic, record)>>, <<>>, TRUE)

\* mutant: no test of sns_topic_arn before publishing
send_to_sns_unchecked_topic(record, topic, outcome) ==
    IF outcome = "ok"
    THEN Sent(<<PublishCall(topic, record)>>, <<LogEntry("info", "Event sent to SNS")>>, FALSE)
    ELSE Sent(<<PublishCall(topic, record)>>,
              <<LogEntry("error", "Error sending event to SNS")>>, FALSE)

send_to_sns(record, topic, outcome) ==
    \* if not sns_topic_arn: logger.critical(...); return
    IF topic_unset(topic)
    THEN Sent(<<>>, <<LogEntry("critical", "SNS_TOPIC_ARN is not set")>>, FALSE)
    \* sns.publish(TopicArn=..., Message=..., Subject=...)
    ELSE IF outcome = "ok"
    THEN Sent(<<PublishCall(topic, record)>>, <<LogEntry("info", "Event sent to SNS")>>, FALSE)
    \* except Exception: logger.error(...)
    ELSE Sent(<<PublishCall(topic, record)>>,
              <<LogEntry("error", "Error sending event to SNS")>>, FALSE)

(***************************************************************************)
(* The copy variant: fetch_s3 (lines 29-43), matching_rule (55-63),         *)
(* process_s3_records (77-97), send_sns (106-122).                          *)
(***************************************************************************)
\* returns the decompressed bytes, not decoded; ok = FALSE is None
fetch_s3(response) ==
    IF response.status = "error"
    THEN [ok |-> FALSE, content |-> <<>>,
          logs |-> <<LogEntry("error", "Error fetching file from S3")>>]
    ELSE IF ~gzip_ok(response.body)
    THEN [ok |-> FALSE, content |-> <<>>,
          logs |-> <<LogEntry("warning", "Error decompressing file")>>]
    ELSE [ok |-> TRUE, content |-> gzip_decompress(response.body), logs |-> <<>>]

matching_rule(record) ==
    LET event_name == dict_get(record, "eventName", JNull) IN
    /\ event_name.t = "str"
    /\ event_name.s \in {"StopLogging", "UpdateTrail", "ConsoleLogin", "DeleteTrail"}

Matching(events, logs) == [events |-> events, logs |-> logs]
process_s3_records(s3_content) ==
    \* if not s3_content: return []
    IF Len(s3_content) = 0
    THEN Matching(<<>>, <<LogEntry("warning", "No content provided to process_s3_records")>>)
    \* s3_content.decode('utf-8'): UnicodeDecodeError -> except Exception
    ELSE IF ~utf8_ok(s3_content)
    THEN Matching(<<>>, <<LogEntry("error", "An unexpected error occurred")>>)
    ELSE LET parsed == json_loads(s3_content) IN
         \* except json.JSONDecodeError: return []
         IF ~parsed.ok
         THEN Matching(<<>>, <<LogEntry("error", "Error decoding JSON content")>>)
         \* log_data.get, len(records), record.get: except Exception: return []
         ELSE IF ~has_get(parsed.val)
         THEN Matching(<<>>, <<LogEntry("error", "An unexpected error occurred")>>)
         ELSE LET records == dict_get(parsed.val, "Records", JArr(<<>>))
                  recs == iter_items(records)
                  \* the records before the first one that is no dict
                  good == IF \E n \in 1..Len(recs) : ~has_get(recs[n])
                          THEN SubSeq(recs, 1, (CHOOSE n \in 1..Len(recs) :
                                   /\ ~has_get(recs[n])
                                   /\ \A m \in 1..(n - 1) : has_get(recs[m])) - 1)
                          ELSE recs
                  found == [n \in 1..Len(SelectSeq(good, matching_rule)) |->
                               LogEntry("info", "Found matching CloudTrail event")]
              IN IF ~has_len(records)
                 THEN Matching(<<>>, <<LogEntry("error", "An unexpected error occurred")>>)
                 ELSE IF Len(good) < Len(recs)
                 THEN Matching(<<>>, found \o <<LogEntry("error", "An unexpected error occurred")>>)
                 ELSE Matching(SelectSeq(recs, matching_rule), found)

send_sns(record, topic, outcome) ==
    IF topic_unset(topic)
    THEN Sent(<<>>, <<LogEntry("critical", "SNS_TOPIC_ARN is not set")>>, FALSE)
    ELSE IF outcome = "ok"
    THEN Sent(<<PublishCall(topic, record)>>, <<LogEntry("info", "Event sent to SNS")>>, FALSE)
    ELSE Sent(<<PublishCall(topic, record)>>,
              <<LogEntry("error", "Error sending event to SNS")>>, FALSE)

(***************************************************************************)
(* src/LambdCloudTrailProcess.py: the handler that reports to CloudWatch    *)
(* Logs.  It reads the notification and the batch by subscripts, which      *)
(* raise where .get would return a default.                                 *)
(***************************************************************************)
\* the module imports boto3, gzip, json and os (lines 1-4): the name `time`
\* of lines 43, 60 and 93 is not defined, and evaluating it raises NameError
time_imported == FALSE

Subscripted(ok, val) == [ok |-> ok, val |-> val]
\* v[key]: KeyError on a dict without the key, TypeError on anything else
getitem(v, key) ==
    IF v.t = "obj" /\ \E n \in 1..Len(v.items) : v.items[n].k = key
    THEN Subscripted(TRUE, dict_get(v, key, JNull))
    ELSE Subscripted(FALSE, JNull)
\* v[0]: the first item of a list, the first character of a str; IndexError
\* when empty, KeyError on a dict (its keys are strings), TypeError otherwise
getitem_first(v) ==
    CASE v.t = "arr" /\ Len(v.items) > 0 -> Subscripted(TRUE, v.items[1])
      [] v.t = "str" /\ v.s # "" -> Subscripted(TRUE, JStr(v.s))
      [] OTHER -> Subscripted(FALSE, JNull)

LogsDecoded(ok, name, objkey) == [ok |-> ok, bucket |-> name, key |-> objkey]
\* lines 24-25
logs_decode(ev) ==
    LET records == getitem(ev, "Records") IN
    IF ~records.ok THEN LogsDecoded(FALSE, JNull, JNull)
    ELSE LET first == getitem_first(records.val) IN
    IF ~first.ok THEN LogsDecoded(FALSE, JNull, JNull)
    ELSE LET s3 == getitem(first.val, "s3") IN
    IF ~s3.ok THEN LogsDecoded(FALSE, JNull, JNull)
    ELSE LET bucket_info == getitem(s3.val, "bucket") IN
    IF ~bucket_info.ok THEN LogsDecoded(FALSE, JNull, JNull)
    ELSE LET name == getitem(bucket_info.val, "name") IN
    IF ~name.ok THEN LogsDecoded(FALSE, JNull, JNull)
    ELSE LET object_info == getitem(s3.val, "object") IN
    IF ~object_info.ok THEN LogsDecoded(FALSE, JNull, JNull)
    ELSE LET objkey == getitem(object_info.val, "key") IN
    IF ~objkey.ok THEN LogsDecoded(FALSE, JNull, JNull)
    ELSE LogsDecoded(TRUE, name.val, objkey.val)

\* get_object(Bucket=..., Key=...) takes non-empty strings; the client raises
\* on anything else before it sends a request
valid_s3_param(v) == v.t = "str" /\ v.s # ""

\* line 70
LogsWatchList == {"StopLogging", "UpdateTrail", "DeleteTrail"}
logs_matches(event_name) == event_name.t = "str" /\ event_name.s \in LogsWatchList

\* line 78, record['eventTime'].timestamp(): a value decoded from JSON is
\* None, a str, a number, a list or a dict, and none of them has the method
has_timestamp(v) == v.t = "datetime"

LogEvent(kind, text, record) == [kind |-> kind, text |-> text, record |-> record]
PutOutcomes == {"ok", "error"}
Put(calls, raised) == [calls |-> calls, raised |-> raised]
\* lines 39-47, 56-64 and 89-97: the arguments are evaluated first, and
\* time.time() is one of them
put_error_log(text, outcome) ==
    IF ~time_imported THEN Put(<<>>, TRUE)
    ELSE Put(<<LogEvent("error", text, JNull)>>, outcome = "error")
\* lines 73-84: the record is reported, and whatever goes wrong is printed
put_matching_event(record, outcome) ==
    LET event_time == getitem(record, "eventTime") IN
    IF ~event_time.ok \/ ~has_timestamp(event_time.val)
    THEN [calls |-> <<>>,
          logs |-> <<LogEntry("print", "Error sending log to CloudWatch")>>]
    ELSE [calls |-> <<LogEvent("event", "", record)>>,
          logs |-> IF outcome = "ok" THEN <<>>
                   ELSE <<LogEntry("print", "Error sending log to CloudWatch")>>]

(***************************************************************************)
(* The inputs of the model.                                                 *)
(***************************************************************************)
\* sequences over S of length lo..hi
SeqsOf(S, lo, hi) == UNION {[1..n -> S] : n \in lo..hi}

\* --- S3 notifications ---------------------------------------------------
\* the ways the "bucket" member of s3 can look (and likewise "object")
LevelShapes(level, field, value) ==
    { <<>>,
      <<Member(level, JObj(<<>>))>>,
      <<Member(level, JNull)>>,
      <<Member(level, JObj(<<Member(field, JNull)>>))>>,
      <<Member(level, JObj(<<Member(field, JStr(""))>>))>>,
      <<Member(level, JObj(<<Member(field, JStr(value))>>))>> }
S3Record(b, k) ==
    JObj(<<Member("s3", JObj(<<Member("bucket", JObj(<<Member("name", JStr(b))>>)),
                               Member("object", JObj(<<Member("key", JStr(k))>>))>>))>>)
FirstRecords ==
    { JNull, JObj(<<>>), JObj(<<Member("s3", JNull)>>) }
    \cup { JObj(<<Member("s3", JObj(bm \o om))>>) :
             bm \in LevelShapes("bucket", "name", "b1"),
             om \in LevelShapes("object", "key", "k1") }
\* the records that may follow the first one
TailRecords == { S3Record("b2", "k2"), JObj(<<>>) }
Tails == SeqsOf(TailRecords, 1, MaxTail)
Notification(records) == JObj(<<Member("Records", records)>>)
\* the notifications of a first invocation
Notifications ==
    { JArr(<<>>), JObj(<<>>), Notification(JNull), Notification(JArr(<<>>)),
      Notification(JObj(<<Member("0", JNull)>>)) }
    \cup { Notification(JArr(<<r>>)) : r \in FirstRecords }

\* --- CloudTrail log batches ---------------------------------------------
RecordKinds == {"StopLogging", "ConsoleLogin", "GetObject", "noName", "nonMapping"}
\* the record of a kind at position i of a batch; eventID tells records apart
MkRecord(kind, i) ==
    CASE kind = "nonMapping" -> JNum("7")
      [] kind = "noName" -> JObj(<<Member("eventID", JStr(ToString(i)))>>)
      [] OTHER -> JObj(<<Member("eventName", JStr(kind)),
                         Member("eventID", JStr(ToString(i)))>>)
Batch(kinds) == JObj(<<Member("Records", JArr([i \in 1..Len(kinds) |-> MkRecord(kinds[i], i)]))>>)
Batches == { Batch(ks) : ks \in SeqsOf(RecordKinds, 0, MaxRecords) }
\* documents of other shapes
OtherDocs ==
    { Batch(<<"UpdateTrail">>), Batch(<<"DeleteTrail">>),
      JObj(<<>>), JObj(<<Member("Records", JNull)>>),
      JObj(<<Member("Records", JStr(""))>>), JObj(<<Member("Records", JStr("x"))>>),
      JArr(<<>>), JNull }
Docs == Batches \cup OtherDocs

\* --- what s3.get_object returns -----------------------------------------
NotJson == <<Tok("w", "invalid"), Tok("w", "json"), Tok("w", "data")>>
Truncated(text) == SubSeq(text, 1, Len(text) - 1)
Texts ==
    { json_dumps(d) : d \in Docs }
    \cup { NotJson, <<>>, Truncated(json_dumps(Batch(<<"StopLogging">>))) }
Bodies ==
    { gzip_compress(t) : t \in Texts }
    \cup { \* b'invalid compressed data'
           <<Tok("w", "invalid"), Tok("w", "compressed"), Tok("w", "data")>>,
           \* an empty object
           <<>>,
           \* a gzip file cut short
           Truncated(gzip_compress(json_dumps(Batch(<<"StopLogging">>)))),
           \* gzip of bytes that are no UTF-8
           gzip_compress(<<Tok("x", "ff")>>) }
Responses == {S3Error} \cup { S3Body(b) : b \in Bodies }
PublishOutcomes == {"ok", "error"}
Topics == {NoTopic, "", "arn:aws:sns:alerts"}

(***************************************************************************)
(* State.                                                                   *)
(***************************************************************************)
VARIABLES
    variant,           \* which handler is deployed: "main" or "copy"
    sns_topic_arn,     \* the module global read from the environment
    event,             \* the notification of the current invocation
    pc,                \* position of lambda_handler
    bucket, key,       \* locals of lambda_handler
    log_records,       \* the records the handler's loop iterates over
    i,                 \* position of the loop (1-based)
    processed_count, matching_count,
    get_calls,         \* calls of s3.get_object of this invocation
    publish_calls,     \* calls of sns.publish of this invocation
    result,            \* what lambda_handler returned
    log,               \* entries logged by this invocation
    s3_objects,        \* environment: what get_object answered, per bucket and key
    pub_outcomes,      \* environment: what the n-th publish of an invocation does
    delivered,         \* environment: the messages the topic received
    run,               \* 1: first invocation, 2: the second one
    prev,              \* what the first invocation did (calls and result)
    log_data,          \* what fetch_cloudtrail_log returned (None before the call)
    mock_log_data,     \* unit test: the batch whose encoding the mocked S3 holds
    put_log_calls      \* calls of logs.put_log_events of this invocation

vars == <<variant, sns_topic_arn, event, pc, bucket, key, log_records, i,
          processed_count, matching_count, get_calls, publish_calls, result, log,
          s3_objects, pub_outcomes, delivered, run, prev, log_data, mock_log_data, put_log_calls>>

Observed == [gets |-> get_calls, publishes |-> publish_calls, result |-> result]

\* the state a fresh invocation starts in
Fresh ==
    /\ pc = "start"
    /\ bucket = "" /\ key = ""
    /\ log_records = <<>> /\ i = 1
    /\ processed_count = 0 /\ matching_count = 0
    /\ get_calls = <<>> /\ publish_calls = <<>>
    /\ result = NoResult
    /\ log = <<LogEntry("info", "Lambda function invoked")>>

Init ==
    /\ variant \in {"main", "copy"}
    /\ sns_topic_arn \in Topics
    /\ event \in Notifications
    /\ Fresh
    /\ s3_objects = {}
    /\ pub_outcomes = <<>>
    /\ delivered = <<>>
    /\ run = 1
    /\ prev = [gets |-> <<>>, publishes |-> <<>>, result |-> NoResult]
    /\ log_data = JNull
    /\ mock_log_data = JNull
    /\ put_log_calls = <<>>

(***************************************************************************)
(* The environment's answers.  The first get_object of a bucket and key     *)
(* picks the answer, later ones repeat it; the n-th publish of an           *)
(* invocation likewise.                                                     *)
(***************************************************************************)
S3Answers(b, k) ==
    IF \E o \in s3_objects : o.Bucket = b /\ o.Key = k
    THEN { o.response : o \in {p \in s3_objects : p.Bucket = b /\ p.Key = k} }
    ELSE Responses
PublishAnswers(n) ==
    IF n <= Len(pub_outcomes) THEN {pub_outcomes[n]} ELSE PublishOutcomes
\* the environment after the handler made `calls` (none or one) with `outcome`
Published(calls, outcome) ==
    /\ pub_outcomes' = IF Len(calls) > 0 /\ Len(publish_calls) + 1 > Len(pub_outcomes)
                       THEN Append(pub_outcomes, outcome) ELSE pub_outcomes
    /\ delivered' = IF outcome = "ok" THEN delivered \o calls ELSE delivered
    /\ publish_calls' = publish_calls \o calls

\* lambda_handler returns res, having logged entries
Return(res, entries) ==
    /\ result' = res
    /\ log' = log \o entries
    /\ pc' = "done"
\* except Exception, lines 177-182 (copy: 180-185)
Unhandled(entries) ==
    Return(Result(StatusError, Body("error", "Error processing S3 event", "", <<>>)),
           entries \o <<LogEntry("critical", "An unhandled exception occurred")>>)

(***************************************************************************)
(* lambda_handler, lines 124-149 (copy: 132-152)                            *)
(***************************************************************************)
Decode ==
    /\ pc = "start"
    /\ variant \in {"main", "copy"}
    /\ LET d == decode_notification(event) IN
       CASE d.outcome = "raise" ->
              /\ Unhandled(<<>>)
              /\ UNCHANGED <<bucket, key>>
         [] d.outcome = "no_records" ->
              /\ Return(Result(StatusOK, Body("message", "No S3 records to process.", "", <<>>)),
                        <<LogEntry("warning", "No S3 records found in the event.")>>)
              /\ UNCHANGED <<bucket, key>>
         [] d.outcome = "invalid" ->
              /\ Return(Result(StatusInvalid, Body("error", "Invalid S3 event format.", "", <<>>)),
                        <<LogEntry("error", "Could not extract bucket name or key")>>)
              /\ UNCHANGED <<bucket, key>>
         [] OTHER ->
              /\ bucket' = d.bucket
              /\ key' = d.key
              /\ log' = Append(log, LogEntry("info", "Processing CloudTrail log file"))
              /\ pc' = "fetch"
              /\ UNCHANGED result
    /\ UNCHANGED <<variant, sns_topic_arn, event, log_records, i, processed_count,
                   matching_count, get_calls, publish_calls, s3_objects, pub_outcomes,
                   delivered, run, prev,
                   log_data, mock_log_data, put_log_calls>>

(***************************************************************************)
(* main, lines 152-163: fetch_cloudtrail_log and the start of the loop      *)
(***************************************************************************)
Fetch ==
    /\ pc = "fetch"
    /\ variant = "main"
    /\ \E response \in S3Answers(bucket, key) :
         LET f == fetch_cloudtrail_log(response) IN
         /\ get_calls' = Append(get_calls, [Bucket |-> bucket, Key |-> key])
         /\ log_data' = IF f.ok THEN f.data ELSE JNull
         /\ s3_objects' = s3_objects \cup
                {[Bucket |-> bucket, Key |-> key, response |-> response]}
         /\ IF ~f.ok
            THEN /\ Return(Result(StatusError,
                                  Body("error", "Failed to retrieve or process CloudTrail logs",
                                       key, <<>>)),
                           f.logs \o <<LogEntry("error", "Failed to fetch or process CloudTrail log")>>)
                 /\ UNCHANGED log_records
            ELSE LET b == batch_records(f.data) IN
                 IF ~b.ok
                 THEN /\ Unhandled(f.logs)
                      /\ UNCHANGED log_records
                 ELSE /\ log_records' = b.recs
                      /\ log' = log \o f.logs
                      /\ pc' = "loop"
                      /\ UNCHANGED result
    /\ UNCHANGED <<variant, sns_topic_arn, event, bucket, key, i, processed_count,
                   matching_count, publish_calls, pub_outcomes, delivered, run, prev,
                   mock_log_data, put_log_calls>>

(***************************************************************************)
(* main, lines 163-169: one iteration of the loop                           *)
(***************************************************************************)
ProcessRecord ==
    /\ pc = "loop"
    /\ variant = "main"
    /\ i <= Len(log_records)
    /\ LET record == log_records[i] IN
       /\ processed_count' = processed_count + 1
       /\ i' = i + 1
       /\ IF ~has_get(record)
          \* record.get raises AttributeError
          THEN /\ Unhandled(<<>>)
               /\ UNCHANGED <<matching_count, publish_calls, pub_outcomes, delivered>>
          ELSE IF ~process_cloudtrail_event(record)
          THEN UNCHANGED <<matching_count, publish_calls, pub_outcomes, delivered,
                           result, log, pc>>
          ELSE \E outcome \in PublishAnswers(Len(publish_calls) + 1) :
                 LET s == send_to_sns(record, sns_topic_arn, outcome)
                     found == <<LogEntry("info", "Found matching CloudTrail event"),
                                LogEntry("info", "Found matching event. Sending to SNS.")>>
                 IN /\ matching_count' = matching_count + 1
                    /\ Published(s.calls, outcome)
                    /\ IF s.raised
                       THEN Unhandled(found \o s.logs)
                       ELSE /\ log' = log \o found \o s.logs
                            /\ UNCHANGED <<result, pc>>
    /\ UNCHANGED <<variant, sns_topic_arn, event, bucket, key, log_records, get_calls,
                   s3_objects, run, prev,
                   log_data, mock_log_data, put_log_calls>>

(***************************************************************************)
(* main, lines 171-175: the loop is over                                    *)
(***************************************************************************)
Finish ==
    /\ pc = "loop"
    /\ variant = "main"
    /\ i > Len(log_records)
    /\ Return(Result(StatusOK,
                     Body("message", "Successfully processed CloudTrail log", key,
                          <<matching_count>>)),
              <<LogEntryN("info", "Successfully processed records",
                          <<processed_count, matching_count>>)>>)
    /\ UNCHANGED <<variant, sns_topic_arn, event, bucket, key, log_records, i,
                   processed_count, matching_count, get_calls, publish_calls,
                   s3_objects, pub_outcomes, delivered, run, prev,
                   log_data, mock_log_data, put_log_calls>>

(***************************************************************************)
(* copy, lines 155-164: fetch_s3 and process_s3_records                     *)
(***************************************************************************)
CopyFetch ==
    /\ pc = "fetch"
    /\ variant = "copy"
    /\ \E response \in S3Answers(bucket, key) :
         LET f == fetch_s3(response) IN
         /\ get_calls' = Append(get_calls, [Bucket |-> bucket, Key |-> key])
         /\ s3_objects' = s3_objects \cup
                {[Bucket |-> bucket, Key |-> key, response |-> response]}
         /\ IF ~f.ok
            THEN /\ Return(Result(StatusError,
                                  Body("error", "Failed to retrieve S3 content", key, <<>>)),
                           f.logs \o <<LogEntry("error", "Failed to fetch content from S3")>>)
                 /\ UNCHANGED log_records
            ELSE LET m == process_s3_records(f.content) IN
                 /\ log_records' = m.events
                 /\ log' = log \o f.logs \o m.logs
                 /\ pc' = "send"
                 /\ UNCHANGED result
    /\ UNCHANGED <<variant, sns_topic_arn, event, bucket, key, i, processed_count,
                   matching_count, publish_calls, pub_outcomes, delivered, run, prev,
                   log_data, mock_log_data, put_log_calls>>

(***************************************************************************)
(* copy, lines 167-170: send_sns of one matching record                     *)
(***************************************************************************)
CopySend ==
    /\ pc = "send"
    /\ variant = "copy"
    /\ i <= Len(log_records)
    /\ \E outcome \in PublishAnswers(Len(publish_calls) + 1) :
         LET s == send_sns(log_records[i], sns_topic_arn, outcome) IN
         /\ i' = i + 1
         /\ Published(s.calls, outcome)
         /\ log' = log \o <<LogEntry("info", "Sending matched event to SNS")>> \o s.logs
    /\ UNCHANGED <<variant, sns_topic_arn, event, pc, bucket, key, log_records,
                   processed_count, matching_count, get_calls, result, s3_objects,
                   run, prev,
                   log_data, mock_log_data, put_log_calls>>

(***************************************************************************)
(* copy, lines 171-178                                                      *)
(***************************************************************************)
CopyFinish ==
    /\ pc = "send"
    /\ variant = "copy"
    /\ i > Len(log_records)
    /\ Return(Result(StatusOK,
                     Body("message", "Successfully processed CloudTrail log", key,
                          <<Len(log_records)>>)),
              <<IF Len(log_records) > 0
                THEN LogEntryN("info", "Successfully processed. Sent matching events to SNS.",
                               <<Len(log_records)>>)
                ELSE LogEntry("info", "No matching events found")>>)
    /\ UNCHANGED <<variant, sns_topic_arn, event, bucket, key, log_records, i,
                   processed_count, matching_count, get_calls, publish_calls,
                   s3_objects, pub_outcomes, delivered, run, prev,
                   log_data, mock_log_data, put_log_calls>>

(***************************************************************************)
(* The Lambda runtime invokes the handler again, in the same process: the   *)
(* module globals stay, the locals are new.  The second notification has    *)
(* the first record of the first one, followed by other records.            *)
(***************************************************************************)
HasRecords(ev) ==
    /\ has_get(ev)
    /\ dict_get(ev, "Records", JNull).t = "arr"
    /\ Len(dict_get(ev, "Records", JNull).items) > 0
FirstRecord(ev) == dict_get(ev, "Records", JNull).items[1]

Reinvoke ==
    /\ pc = "done"
    /\ run = 1
    /\ HasRecords(event)
    /\ \E tail \in Tails :
         event' = Notification(JArr(<<FirstRecord(event)>> \o tail))
    /\ prev' = Observed
    /\ run' = 2
    /\ pc' = "start"
    /\ bucket' = "" /\ key' = ""
    /\ log_records' = <<>> /\ i' = 1
    /\ processed_count' = 0 /\ matching_count' = 0
    /\ get_calls' = <<>> /\ publish_calls' = <<>>
    /\ result' = NoResult
    /\ log' = IF variant = "logs" THEN <<>>
               ELSE <<LogEntry("info", "Lambda function invoked")>>
    /\ log_data' = JNull
    /\ put_log_calls' = <<>>
    /\ UNCHANGED <<variant, sns_topic_arn, s3_objects, pub_outcomes, delivered,
                   mock_log_data>>

Next ==
    \/ Decode
    \/ Fetch
    \/ ProcessRecord
    \/ Finish
    \/ CopyFetch
    \/ CopySend
    \/ CopyFinish
    \/ Reinvoke

Spec == Init /\ [][Next]_vars

(***************************************************************************)
(* lambda_handler of src/LambdCloudTrailProcess.py.  It returns None;       *)
(* pc = "raised" says that an exception left it.                            *)
(***************************************************************************)
LogsInit ==
    /\ variant = "logs"
    /\ sns_topic_arn = NoTopic
    /\ event \in Notifications
    /\ pc = "start"
    /\ bucket = "" /\ key = ""
    /\ log_records = <<>> /\ i = 1
    /\ processed_count = 0 /\ matching_count = 0
    /\ get_calls = <<>> /\ publish_calls = <<>>
    /\ result = NoResult
    /\ log = <<>>
    /\ s3_objects = {}
    /\ pub_outcomes = <<>>
    /\ delivered = <<>>
    /\ run = 1
    /\ prev = [gets |-> <<>>, publishes |-> <<>>, result |-> NoResult]
    /\ log_data = JNull
    /\ mock_log_data = JNull
    /\ put_log_calls = <<>>

\* except Exception, lines 86-98, entered having printed `entries` and made
\* the put_log_events calls `calls`
LogsExcept(entries, calls) ==
    \E outcome \in PutOutcomes :
       LET p == put_error_log("Error processing S3 event", outcome) IN
       /\ put_log_calls' = put_log_calls \o calls \o p.calls
       /\ log' = log \o entries \o <<LogEntry("print", "Error processing S3 event")>>
       /\ pc' = IF p.raised THEN "raised" ELSE "done"

\* the handlers of lines 36-48 and 53-65: print, report, return
LogsReport(text) ==
    \E outcome \in PutOutcomes :
       LET p == put_error_log(text, outcome) IN
       IF p.raised
       THEN LogsExcept(<<LogEntry("print", text)>>, p.calls)
       ELSE /\ put_log_calls' = put_log_calls \o p.calls
            /\ log' = Append(log, LogEntry("print", text))
            /\ pc' = "done"

\* lines 24-27
LogsDecode ==
    /\ pc = "start"
    /\ variant = "logs"
    /\ LET d == logs_decode(event) IN
       IF ~d.ok
       THEN /\ LogsExcept(<<>>, <<>>)
            /\ UNCHANGED <<bucket, key>>
       ELSE IF ~valid_s3_param(d.bucket) \/ ~valid_s3_param(d.key)
       THEN /\ LogsExcept(<<LogEntry("print", "Processing CloudTrail log file")>>, <<>>)
            /\ UNCHANGED <<bucket, key>>
       ELSE /\ bucket' = d.bucket.s
            /\ key' = d.key.s
            /\ log' = Append(log, LogEntry("print", "Processing CloudTrail log file"))
            /\ pc' = "fetch"
            /\ UNCHANGED put_log_calls
    /\ UNCHANGED <<variant, sns_topic_arn, event, log_records, i, processed_count,
                   matching_count, get_calls, publish_calls, result, s3_objects,
                   pub_outcomes, delivered, run, prev, log_data, mock_log_data>>

\* lines 30-68: get_object, decompress, json.loads, log_data['Records']
LogsFetch ==
    /\ pc = "fetch"
    /\ variant = "logs"
    /\ \E response \in S3Answers(bucket, key) :
         /\ get_calls' = Append(get_calls, [Bucket |-> bucket, Key |-> key])
         /\ s3_objects' = s3_objects \cup
                {[Bucket |-> bucket, Key |-> key, response |-> response]}
         /\ IF response.status = "error"
            THEN /\ LogsExcept(<<>>, <<>>)
                 /\ UNCHANGED <<log_data, log_records>>
            ELSE IF ~gzip_ok(response.body) \/ ~utf8_ok(gzip_decompress(response.body))
            THEN /\ LogsReport("Error decompressing log file")
                 /\ UNCHANGED <<log_data, log_records>>
            ELSE LET parsed == json_loads(gzip_decompress(response.body)) IN
                 IF ~parsed.ok
                 THEN /\ LogsReport("Error decoding JSON")
                      /\ UNCHANGED <<log_data, log_records>>
                 ELSE LET records == getitem(parsed.val, "Records") IN
                      /\ log_data' = parsed.val
                      /\ IF ~records.ok \/ ~has_len(records.val)
                         \* KeyError or TypeError; None and numbers do not iterate
                         THEN /\ LogsExcept(<<>>, <<>>)
                              /\ UNCHANGED log_records
                         ELSE /\ log_records' = iter_items(records.val)
                              /\ pc' = "loop"
                              /\ UNCHANGED <<log, put_log_calls>>
    /\ UNCHANGED <<variant, sns_topic_arn, event, bucket, key, i, processed_count,
                   matching_count, publish_calls, result, pub_outcomes, delivered,
                   run, prev, mock_log_data>>

\* lines 68-84: one iteration of the loop
LogsRecord ==
    /\ pc = "loop"
    /\ variant = "logs"
    /\ i <= Len(log_records)
    /\ i' = i + 1
    /\ LET record == log_records[i]
           event_name == getitem(record, "eventName")
       IN IF ~event_name.ok
          THEN LogsExcept(<<>>, <<>>)
          ELSE IF ~logs_matches(event_name.val)
          THEN UNCHANGED <<log, put_log_calls, pc>>
          ELSE \E outcome \in PutOutcomes :
                 LET p == put_matching_event(record, outcome) IN
                 /\ put_log_calls' = put_log_calls \o p.calls
                 /\ log' = log \o <<LogEntry("print", "Found matching event")>> \o p.logs
                 /\ UNCHANGED pc
    /\ UNCHANGED <<variant, sns_topic_arn, event, bucket, key, log_records,
                   processed_count, matching_count, get_calls, publish_calls, result,
                   s3_objects, pub_outcomes, delivered, run, prev, log_data,
                   mock_log_data>>

\* the loop is over: the handler returns None
LogsFinish ==
    /\ pc = "loop"
    /\ variant = "logs"
    /\ i > Len(log_records)
    /\ pc' = "done"
    /\ UNCHANGED <<variant, sns_topic_arn, event, bucket, key, log_records, i,
                   processed_count, matching_count, get_calls, publish_calls, result,
                   log, s3_objects, pub_outcomes, delivered, run, prev, log_data,
                   mock_log_data, put_log_calls>>

\* the three handlers
InitHandlers == Init \/ LogsInit
NextHandlers ==
    \/ Decode
    \/ Fetch
    \/ ProcessRecord
    \/ Finish
    \/ CopyFetch
    \/ CopySend
    \/ CopyFinish
    \/ LogsDecode
    \/ LogsFetch
    \/ LogsRecord
    \/ LogsFinish
    \/ Reinvoke

SpecHandlers == InitHandlers /\ [][NextHandlers]_vars

(***************************************************************************)
(* What the claims speak about.                                             *)
(***************************************************************************)
MainDone == variant = "main" /\ pc = "done"
\* the handler called s3.get_object
Got == get_calls # <<>>
\* what get_object answered for the handler's bucket and key
StoredResponse == (CHOOSE o \in s3_objects : o.Bucket = bucket /\ o.Key = key).response
\* the payload was fetched and is valid gzip
GzipValid == Got /\ StoredResponse.status = "ok" /\ gzip_ok(StoredResponse.body)
Content == gzip_decompress(StoredResponse.body)
\* ... of UTF-8 text that is valid JSON
JsonValid == GzipValid /\ utf8_ok(Content) /\ json_loads(Content).ok
ParsedDoc == json_loads(Content).val

HasField(d, f) == \E n \in 1..Len(d.items) : d.items[n].k = f
\* the value of field f of d, None when d has no such field
FieldOf(d, f) ==
    IF HasField(d, f) THEN d.items[CHOOSE n \in 1..Len(d.items) : d.items[n].k = f].v
    ELSE JNull
\* a JSON object whose Records field is a sequence
HasRecordsSequence(d) ==
    d.t = "obj" /\ HasField(d, "Records") /\ FieldOf(d, "Records").t = "arr"
\* a LogBatch: the Records are audit records, that is, mappings
IsLogBatch(d) ==
    /\ HasRecordsSequence(d)
    /\ \A n \in 1..Len(FieldOf(d, "Records").items) : FieldOf(d, "Records").items[n].t = "obj"
WatchList == {"StopLogging", "UpdateTrail", "ConsoleLogin", "DeleteTrail"}
IsMatched(r) ==
    /\ r.t = "obj"
    /\ HasField(r, "eventName")
    /\ FieldOf(r, "eventName").t = "str"
    /\ FieldOf(r, "eventName").s \in WatchList
\* the matching records of a batch, in the order of the batch
MatchedOf(d) == SelectSeq(FieldOf(d, "Records").items, IsMatched)
\* one publish call per matching record, in that order
ExpectedCalls(d) ==
    [n \in 1..Len(MatchedOf(d)) |-> PublishCall(sns_topic_arn, MatchedOf(d)[n])]
\* the publish calls of a sequence that the environment accepted
AcceptedCalls(calls) ==
    LET Idx == {n \in 1..Len(calls) : n <= Len(pub_outcomes) /\ pub_outcomes[n] = "ok"}
        F[n \in 0..Len(calls)] ==
            IF n = 0 THEN <<>>
            ELSE IF n \in Idx THEN Append(F[n - 1], calls[n]) ELSE F[n - 1]
    IN F[Len(calls)]

(***************************************************************************)
(* C1.  Main handler, topic configured, payload valid gzip of valid JSON    *)
(* whose Records is a sequence of N audit records, M of them with an        *)
(* eventName of the watch list: exactly M publish calls are made, one per   *)
(* matching record, in the order of the batch.                              *)
(***************************************************************************)
C1_Case ==
    /\ MainDone
    /\ ~topic_unset(sns_topic_arn)
    /\ JsonValid
    /\ IsLogBatch(ParsedDoc)

UnparsableText ==
    GzipValid /\ Len(Content) > 0 /\ utf8_ok(Content) /\ ~json_loads(Content).ok

C2_InvalidJsonFails ==
    (pc = "done" /\ UnparsableText)
    => (result.statusCode = StatusError /\ publish_calls = <<>>)

\* the same of the main handler alone
C2_MainInvalidJsonFails ==
    (MainDone /\ GzipValid /\ ~JsonValid)
    => (result.statusCode = StatusError /\ publish_calls = <<>>)

(***************************************************************************)
(* C3.  Main handler: when the publish of a matched record fails, every     *)
(* later matched record is still attempted, each matched record exactly     *)
(* once and in order, and the topic keeps what it received before.          *)
(***************************************************************************)
SomePublishFailed ==
    \E n \in 1..Len(publish_calls) : n <= Len(pub_outcomes) /\ pub_outcomes[n] = "error"

C3_FailureDoesNotStopBatch ==
    /\ (C1_Case /\ SomePublishFailed) => publish_calls = ExpectedCalls(ParsedDoc)
    /\ variant = "main" =>
          delivered = AcceptedCalls(prev.publishes) \o AcceptedCalls(publish_calls)

\* the first publish failed, a later one was made and accepted
C3_Witness ==
    /\ C1_Case
    /\ run = 1
    /\ Len(publish_calls) >= 2
    /\ pub_outcomes[1] = "error"
    /\ pub_outcomes[2] = "ok"
    /\ delivered = <<publish_calls[2]>>

(***************************************************************************)
(* C4.  Main handler, topic not set: a valid batch of N records with M      *)
(* matches gives status 200, a result that reports M, and no publish call.  *)
(***************************************************************************)
C4_Case ==
    /\ MainDone
    /\ topic_unset(sns_topic_arn)
    /\ JsonValid
    /\ IsLogBatch(ParsedDoc)

C4_NoTopicNoPublish ==
    /\ C4_Case =>
          /\ result.statusCode = StatusOK
          /\ result.body.counts = <<Len(MatchedOf(ParsedDoc))>>
    /\ (variant = "main" /\ topic_unset(sns_topic_arn)) =>
          (publish_calls = <<>> /\ delivered = <<>>)

C4_Witness ==
    /\ C4_Case
    /\ sns_topic_arn = NoTopic
    /\ Len(MatchedOf(ParsedDoc)) >= 2
    /\ result.body.counts = <<2>>

(***************************************************************************)
(* C5.  Main handler: a notification with at least one record whose first   *)
(* record misses the bucket name or the object key (the field, or a level   *)
(* s3 / bucket / object around it, absent or empty) gives status 400 and    *)
(* s3.get_object is never called.                                           *)
(***************************************************************************)
\* the level f of d is absent, or an empty mapping
AbsentOrEmpty(d, f) == ~HasField(d, f) \/ FieldOf(d, f) = JObj(<<>>)
\* the field f of the level d is absent, None or the empty string
NoValue(d, f) == ~HasField(d, f) \/ FieldOf(d, f) \in {JNull, JStr("")}
\* the string at s3.<level>.<field> of record r is missing
MissingAt(r, level, field) ==
    \/ AbsentOrEmpty(r, "s3")
    \/ AbsentOrEmpty(FieldOf(r, "s3"), level)
    \/ NoValue(FieldOf(FieldOf(r, "s3"), level), field)
\* every level of r that is present is a mapping
LevelsAreMappings(r) ==
    /\ r.t = "obj"
    /\ HasField(r, "s3") =>
          /\ FieldOf(r, "s3").t = "obj"
          /\ \A level \in {"bucket", "object"} :
                HasField(FieldOf(r, "s3"), level) => FieldOf(FieldOf(r, "s3"), level).t = "obj"
C5_Case ==
    /\ variant = "main"
    /\ HasRecords(event)
    /\ LevelsAreMappings(FirstRecord(event))
    /\ \/ MissingAt(FirstRecord(event), "bucket", "name")
       \/ MissingAt(FirstRecord(event), "object", "key")

C6_Case ==
    /\ variant = "main"
    /\ event.t = "obj"
    /\ ~HasField(event, "Records") \/ FieldOf(event, "Records") = JArr(<<>>)

C6_NoRecordsIsSuccess ==
    C6_Case =>
        /\ get_calls = <<>>
        /\ publish_calls = <<>>
        /\ s3_objects = {}
        /\ pc = "done" => result.statusCode = StatusOK

C6_Witness ==
    /\ C6_Case
    /\ pc = "done"
    /\ ~HasField(event, "Records")
    /\ result.statusCode = StatusOK

(***************************************************************************)
(* C7.  Main handler: a fetched payload that is no valid gzip data gives    *)
(* status 500 and no publish call.                                          *)
(***************************************************************************)
C7_Case ==
    /\ variant = "main"
    /\ Got
    /\ StoredResponse.status = "ok"
    /\ ~gzip_ok(StoredResponse.body)

C7_CorruptPayloadFails ==
    C7_Case =>
        /\ pc = "done"
        /\ result.statusCode = StatusError
        /\ publish_calls = <<>>

C7_Witness ==
    /\ C7_Case
    /\ ~topic_unset(sns_topic_arn)
    /\ result.statusCode = StatusError
    /\ \E n \in 1..Len(log) : log[n].level = "warning"

(***************************************************************************)
(* C8.  Main handler: a valid gzip+JSON payload whose Records field is an   *)
(* empty sequence or is missing gives status 200 with zero matches and no   *)
(* publish call.                                                            *)
(***************************************************************************)
C8_Case ==
    /\ MainDone
    /\ JsonValid
    /\ ParsedDoc.t = "obj"
    /\ ~HasField(ParsedDoc, "Records") \/ FieldOf(ParsedDoc, "Records") = JArr(<<>>)

C8_EmptyOrMissingRecords ==
    C8_Case =>
        /\ result.statusCode = StatusOK
        /\ result.body.counts = <<0>>
        /\ publish_calls = <<>>

C8_Witness ==
    /\ C8_Case
    /\ ~HasField(ParsedDoc, "Records")
    /\ result.statusCode = StatusOK

(***************************************************************************)
(* C9.  Main handler: only the first record of the notification is read.    *)
(* A second invocation with the same first record and other records after   *)
(* it, against the same answers of S3 and SNS, makes the same get_object    *)
(* call (at most one, with the first record's bucket and key) and the same  *)
(* publish calls and returns the same result.                               *)
(***************************************************************************)
C9_OnlyFirstRecordRead ==
    (MainDone /\ run = 2) =>
        /\ Observed = prev
        /\ Len(get_calls) <= 1
        /\ Got => get_calls[1] =
              [Bucket |-> FieldOf(FieldOf(FieldOf(FirstRecord(event), "s3"), "bucket"), "name").s,
               Key |-> FieldOf(FieldOf(FieldOf(FirstRecord(event), "s3"), "object"), "key").s]

\* the second notification carries another bucket and key after the first
C9_Witness ==
    /\ MainDone
    /\ run = 2
    /\ Len(dict_get(event, "Records", JNull).items) >= 2
    /\ dict_get(event, "Records", JNull).items[2] = S3Record("b2", "k2")
    /\ get_calls = <<[Bucket |-> "b1", Key |-> "k1"]>>
    /\ Len(publish_calls) >= 1
    /\ Observed = prev

(***************************************************************************)
(* C10.  Main handler, first record with bucket and key: the invocation     *)
(* never fails solely because publishes failed.                             *)
(***************************************************************************)
\* fetch, decompression and JSON parsing succeeded and the parsed value is
\* a JSON object whose Records is absent or a sequence of JSON objects
WellShaped(d) ==
    /\ d.t = "obj"
    /\ HasField(d, "Records") => IsLogBatch(d)

create_gzipped_json_data(data) == gzip_compress(json_dumps(data))
\* mock_log_data of test_fetch_cloudtrail_log_success, line 29
TestBatch == JObj(<<Member("Records", JArr(<<JObj(<<Member("eventVersion", JStr("1.0"))>>)>>))>>)
TestBuckets == {"test-bucket"}
TestKeys == {"test/log.gz", "nonexistent/log.gz", "corrupted/log.gz", "malformed/log.gz"}

TestInit ==
    /\ variant = "unit"
    /\ pc = "test"
    /\ bucket \in TestBuckets
    /\ key \in TestKeys
    /\ \/ \* get_object returns the encoding of a document
          /\ mock_log_data \in Docs \cup {TestBatch}
          /\ s3_objects = {[Bucket |-> bucket, Key |-> key,
                            response |-> S3Body(create_gzipped_json_data(mock_log_data))]}
       \/ \* get_object raises, or returns other bytes
          /\ mock_log_data = JNull
          /\ \E response \in Responses :
                s3_objects = {[Bucket |-> bucket, Key |-> key, response |-> response]}
    /\ log = <<>>
    /\ log_data = JNull
    /\ get_calls = <<>>
    /\ put_log_calls = <<>>
    /\ sns_topic_arn = NoTopic
    /\ event = JNull
    /\ log_records = <<>> /\ i = 1
    /\ processed_count = 0 /\ matching_count = 0
    /\ publish_calls = <<>>
    /\ result = NoResult
    /\ pub_outcomes = <<>>
    /\ delivered = <<>>
    /\ run = 1
    /\ prev = [gets |-> <<>>, publishes |-> <<>>, result |-> NoResult]

\* result = fetch_cloudtrail_log(bucket, key)
TestCall ==
    /\ pc = "test"
    /\ \E response \in S3Answers(bucket, key) :
         LET f == fetch_cloudtrail_log(response) IN
         /\ get_calls' = Append(get_calls, [Bucket |-> bucket, Key |-> key])
         /\ log_data' = IF f.ok THEN f.data ELSE JNull
         /\ log' = log \o f.logs
    /\ pc' = "tested"
    /\ UNCHANGED <<variant, sns_topic_arn, event, bucket, key, log_records, i,
                   processed_count, matching_count, publish_calls, result,
                   s3_objects, pub_outcomes, delivered, run, prev, mock_log_data, put_log_calls>>

SpecFetch == TestInit /\ [][TestCall]_vars

\* how often the logger was called at a level
Logged(level) == Len(SelectSeq(log, LAMBDA e : e.level = level))

(***************************************************************************)
(* C11.  When S3 returns the gzip compression of the JSON encoding of a     *)
(* log batch d, fetch_cloudtrail_log returns exactly d, after one           *)
(* get_object call with the bucket and key it was given, and logs no        *)
(* warning and no error.                                                    *)
(***************************************************************************)
\* a JSON object whose Records, when present, is a sequence
IsBatchDocument(d) ==
    /\ d.t = "obj"
    /\ HasField(d, "Records") => FieldOf(d, "Records").t = "arr"

C11_Case ==
    /\ pc = "tested"
    /\ IsBatchDocument(mock_log_data)
    /\ StoredResponse = S3Body(create_gzipped_json_data(mock_log_data))

C11_FetchRoundTrip ==
    C11_Case =>
        /\ log_data = mock_log_data
        /\ get_calls = <<[Bucket |-> bucket, Key |-> key]>>
        /\ Logged("warning") = 0
        /\ Logged("error") = 0

\* a batch of two records comes back as it was encoded
C11_Witness ==
    /\ C11_Case
    /\ Len(FieldOf(mock_log_data, "Records").items) = 2
    /\ log_data = mock_log_data
    /\ log = <<>>

(***************************************************************************)
(* C12.  fetch_cloudtrail_log returns None on every failure and logs        *)
(* exactly one entry that classifies it: a failing get_object gives one     *)
(* error and no warning, a failing decompression one warning and no error,  *)
(* a failing JSON decoding one error and no warning; get_object is called   *)
(* exactly once in each case.                                               *)
(***************************************************************************)
StorageFails == StoredResponse.status = "error"
\* line 37: gzip.decompress(...).decode('utf-8') raises
DecompressionFails == ~StorageFails /\ (~GzipValid \/ ~utf8_ok(Content))
\* line 44: json.loads raises
JsonDecodingFails == ~StorageFails /\ ~DecompressionFails /\ ~JsonValid

C12_FailureClassified ==
    pc = "tested" =>
        /\ get_calls = <<[Bucket |-> bucket, Key |-> key]>>
        /\ StorageFails =>
              log_data = JNull /\ Logged("error") = 1 /\ Logged("warning") = 0
        /\ DecompressionFails =>
              log_data = JNull /\ Logged("warning") = 1 /\ Logged("error") = 0
        /\ JsonDecodingFails =>
              log_data = JNull /\ Logged("error") = 1 /\ Logged("warning") = 0
        /\ log_data = JNull => Len(log) = 1

\* corrupt bytes were fetched: one warning, nothing returned
C12_Witness ==
    /\ pc = "tested"
    /\ DecompressionFails
    /\ ~GzipValid
    /\ log_data = JNull
    /\ log = <<LogEntry("warning", "Error decompressing log file")>>

(***************************************************************************)
(* C13.  No fault escapes lambda_handler in any of the three handlers:      *)
(* whatever the notification, the payload and the failures of get_object,   *)
(* publish and put_log_events, the handler returns instead of raising; and  *)
(* in the two SNS handlers a fault nothing else caught gives a result with  *)
(* status 500.                                                              *)
(***************************************************************************)
\* except Exception of an SNS handler was entered
CaughtByHandler ==
    \E n \in 1..Len(log) : log[n] = LogEntry("critical", "An unhandled exception occurred")

C13_NoFaultEscapes ==
    /\ pc # "raised"
    /\ variant \in {"main", "copy"} /\ pc = "done" /\ CaughtByHandler
          => result.statusCode = StatusError

\* the part of C13 the two SNS handlers keep
C13_SnsHandlersReturn ==
    variant \in {"main", "copy"} =>
        /\ pc # "raised"
        /\ pc = "done" /\ CaughtByHandler => result.statusCode = StatusError
        /\ pc = "done" => result # NoResult
====
